---- MODULE Spec2Model ----
(***************************************************************************)
(* Model of PyData_vanilla.ipynb: the notebook's cells as the steps of a   *)
(* linear pipeline (load, encode labels, scale, holdout split, searches,   *)
(* scoring).  The notebook's cells call scikit-learn (the release that     *)
(* still has sklearn.cross_validation and sklearn.grid_search); a library  *)
(* call is modelled by what that call does to the notebook's variables.    *)
(*                                                                         *)
(* Abstractions: real numbers are kept exact (a fraction is a pair of      *)
(* integers, test_size is a number of tenths), so floating-point rounding  *)
(* is not modelled; a classifier's fit/predict is an arbitrary outcome.    *)
(***************************************************************************)
EXTENDS Integers, Sequences, FiniteSets, TLC

\* ---------------------------------------------------------------- bounds
MaxRows == 3        \* rows of the data file (wdbc.csv has 569)
MaxRuns == 2        \* executions of the split cell in one kernel session

\* ------------------------------------------------------ program constants
random_state == 5   \* train_test_split(..., random_state=5)
n_iter == 2         \* RandomizedSearchCV(..., n_iter=20), scaled down
TestSizeDen == 10   \* test_size is written in tenths (0.3 = 3/10)

\* the label alphabet of column 1, as character codes: "A", "B", "M"
LabelValues == {65, 66, 77}
\* the values a feature cell may hold
FeatureValues == {0, 1}
\* test_size values tried, in tenths; the notebook passes 3
TestSizes == {3, 5, 8}

None == [none |-> TRUE]

VARIABLES
    pc,            \* the next cell to execute
    X, y,          \* the data matrix (one column) and the class vector
    le_classes,    \* le.classes_
    yTransformed,
    scaler,        \* the fitted StandardScaler: [n, sum, sumsq], or None
    scaler_fits,   \* how many times a scaler was fitted
    Xauto,
    test_size,     \* in tenths
    mt,            \* RandomState(seed).permutation(n) for the seed used
    np_random,     \* draws consumed from the global generator np.random
    train, test,   \* the row indices train_test_split picked
    XTrain, XTest, yTrain, yTest,
    runs,          \* executions of the split cell so far
    firstSplit,    \* <<train, test>> of the first execution of the split cell
    split_rng,     \* np_random when the split cell was last executed
    \* --- a hyperparameter search (GridSearchCV / RandomizedSearchCV .fit)
    s_pc,          \* "idle", "fit", "done" or "error"
    s_kind,        \* "grid" or "random"
    cv_kind,       \* "kfold" (cv=cv.KFold(n, n_folds)) or "stratified" (cv=int)
    n_folds,
    cv_iter,       \* the (fit rows, validation rows) pairs the search iterates
    param_space,   \* per parameter name, in sorted order: [kind, size]
    grid_scores,   \* grid_scores_: one entry per evaluated setting
    n_fits,        \* estimator fits made by the search
    best_params, best_score,
    \* --- metrics.accuracy_score(y_true, y_pred)
    y_true, y_pred, accuracy,
    \* --- the model cells after the split
    fit_log,       \* every fit call so far: [est, rows], rows as dataset row numbers
    predict_log,   \* every predict call so far: [est, rows]
    knn3, knn,     \* fitted estimators: [params, fitted], or None
    yPredKnn,      \* predictions: [by, rows], the estimator that made them
    grid_best_params,    \* grid.best_params_ of the KNN search
    gridcv_best_params,  \* gridcv.best_params_ of the latest gridcv
    best_c, best_penalty,
    l_regression, net_prediction,
    \* --- one query of KNeighborsClassifier.predict
    vote_pc,       \* "idle", "query" or "done"
    K,             \* n_neighbors of the classifier the search evaluates
    neigh_votes,   \* per class code 0, 1: how many of the K neighbours have it
    vote,          \* [label, tie] once predicted, or None
    \* --- one heatmap cell
    h_pc,          \* "idle", "plot" or "shown"
    h_kind,        \* which search is plotted: "knn", "svm", "lr" or "nnet"
    score_dict,    \* grid_scores_ of that search: [parameters, mean] per setting
    heat_scores,   \* the matrix (notebook name: scores) handed to plt.imshow, as a sequence of rows
    xticks, yticks \* the labels set by plt.xticks / plt.yticks: [param, labels]

pipeVars == <<pc, X, y, le_classes, yTransformed, scaler, scaler_fits, Xauto,
              test_size, mt, np_random, train, test, XTrain, XTest, yTrain,
              yTest, runs, firstSplit, split_rng>>

searchVars == <<s_pc, s_kind, cv_kind, n_folds, cv_iter, param_space, grid_scores, n_fits,
                best_params, best_score>>

metricVars == <<y_true, y_pred, accuracy>>

modelVars == <<fit_log, predict_log, knn3, knn, yPredKnn, grid_best_params,
               gridcv_best_params, best_c, best_penalty, l_regression, net_prediction>>

voteVars == <<vote_pc, K, neigh_votes, vote>>

heatVars == <<h_pc, h_kind, score_dict, heat_scores, xticks, yticks>>

extraVars == <<modelVars, voteVars, heatVars>>

\* ---------------------------------------------------------------- helpers
Range(s) == {s[i] : i \in 1..Len(s)}

RECURSIVE SumSeq(_)
SumSeq(s) == IF s = <<>> THEN 0 ELSE s[1] + SumSeq(Tail(s))

Perms(n) == {p \in [1..n -> 1..n] : \A i, j \in 1..n : i # j => p[i] # p[j]}

Min(S) == CHOOSE m \in S : \A k \in S : m <= k

\* indexing that ignores the permutation: the first len(idx) rows in file order
Take_Unpermuted(a, idx) == [i \in 1..Len(idx) |-> a[i]]

\* numpy fancy indexing a[idx]
Take(a, idx) == [i \in 1..Len(idx) |-> a[idx[i]]]

\* --------------------------------------------------------- LabelEncoder
\* np.unique(y): the distinct values, sorted ascending
RECURSIVE SortedSeq(_)
SortedSeq(S) == IF S = {} THEN <<>> ELSE <<Min(S)>> \o SortedSeq(S \ {Min(S)})

LabelEncoderFit(labels) == SortedSeq(Range(labels))

\* a two-class encoder: everything above the first class gets code 1
SearchSorted_TwoClass(classes, v) == IF v > classes[1] THEN 1 ELSE 0

\* np.searchsorted(classes, v): 0-based position of v in the sorted classes
SearchSorted(classes, v) == Cardinality({i \in 1..Len(classes) : classes[i] < v})

LabelEncoderTransform(classes, labels) ==
    [i \in 1..Len(labels) |-> SearchSorted(classes, labels[i])]

\* le.inverse_transform(codes): classes_[codes]
LabelEncoderInverse(classes, codes) ==
    [i \in 1..Len(codes) |-> classes[codes[i] + 1]]

\* ------------------------------------------------------- StandardScaler
\* a fit that leaves the last row out
StandardScalerFit_DropLast(M) ==
    LET H == SubSeq(M, 1, Len(M) - 1)
    IN  [n |-> Len(H), sum |-> SumSeq(H), sumsq |-> SumSeq([i \in 1..Len(H) |-> H[i] * H[i]])]

\* fit: per-column mean and (population) standard deviation, kept exactly as
\* the row count, the column sum and the sum of squares
StandardScalerFit(M) ==
    [n |-> Len(M), sum |-> SumSeq(M), sumsq |-> SumSeq([i \in 1..Len(M) |-> M[i] * M[i]])]

\* a transform that divides by the standard deviation as computed, zero or not
StandardScalerTransform_NoGuard(p, x) ==
    [num |-> p.n * x - p.sum, sq |-> p.n * p.sumsq - p.sum * p.sum]

\* transform one cell: (x - mean) / std = (n*x - sum) / sqrt(n*sumsq - sum^2);
\* a zero std is replaced by 1.0, which gives (n*x - sum) / sqrt(n^2)
StandardScalerTransform(p, x) ==
    LET d == p.n * p.sumsq - p.sum * p.sum
    IN  [num |-> p.n * x - p.sum, sq |-> IF d = 0 THEN p.n * p.n ELSE d]

\* ----------------------------------------------------- train_test_split
\* floor instead of ceil
NTest_Floor(n, ts) == (ts * n) \div TestSizeDen

\* ShuffleSplit's sizes for a float test_size and train_size=None
NTest(n, ts) == (ts * n + TestSizeDen - 1) \div TestSizeDen     \* ceil(test_size * n)
NTrain(n, ts) == n - NTest(n, ts)

\* random_state=None: the split draws from the global generator, whose state
\* is whatever earlier draws left
SplitPerms_Global(seed, n) == Perms(n)

\* the permutations the split may use: random_state is an int, so a fresh
\* RandomState(random_state) is made and np.random is not consulted
SplitPerms(seed, n) == {mt[seed]}

ShuffleSplitTest(perm, n_test) == [i \in 1..n_test |-> perm[i]]
\* the training slice taken from the start of the permutation
ShuffleSplitTrain_FromStart(perm, n_test, n_train) == [i \in 1..n_train |-> perm[i]]

ShuffleSplitTrain(perm, n_test, n_train) == [i \in 1..n_train |-> perm[n_test + i]]

\* ------------------------------------------------------------ the cells
PipeInit ==
    /\ pc = "load"
    /\ X = <<>> /\ y = <<>>
    /\ le_classes = <<>> /\ yTransformed = <<>>
    /\ scaler = None /\ scaler_fits = 0 /\ Xauto = <<>>
    /\ test_size \in TestSizes
    /\ mt = None
    /\ np_random = 0
    /\ train = <<>> /\ test = <<>>
    /\ XTrain = <<>> /\ XTest = <<>> /\ yTrain = <<>> /\ yTest = <<>>
    /\ runs = 0 /\ firstSplit = None /\ split_rng = 0

SearchIdle ==
    /\ s_pc = "idle" /\ s_kind = "grid" /\ cv_kind = "kfold" /\ n_folds = 0
    /\ cv_iter = <<>>
    /\ param_space = <<>> /\ grid_scores = <<>> /\ n_fits = 0
    /\ best_params = None /\ best_score = None

MetricsIdle ==
    /\ y_true = <<>> /\ y_pred = <<>> /\ accuracy = None

ModelsIdle ==
    /\ fit_log = {} /\ predict_log = {}
    /\ knn3 = None /\ knn = None /\ yPredKnn = None
    /\ grid_best_params = None /\ gridcv_best_params = None
    /\ best_c = None /\ best_penalty = None
    /\ l_regression = None /\ net_prediction = None

VoteIdle ==
    /\ vote_pc = "idle" /\ K = 0 /\ neigh_votes = <<>> /\ vote = None

HeatIdle ==
    /\ h_pc = "idle" /\ h_kind = "knn" /\ score_dict = <<>> /\ heat_scores = <<>>
    /\ xticks = None /\ yticks = None

ExtraIdle == ModelsIdle /\ VoteIdle /\ HeatIdle

\* data = pd.read_csv(...); X = dataArray[:,2:]; y = dataArray[:,1]
Load ==
    /\ UNCHANGED <<searchVars, metricVars, extraVars>>
    /\ pc = "load"
    /\ \E n \in 1..MaxRows :
         /\ X' \in [1..n -> FeatureValues]
         /\ y' \in [1..n -> LabelValues]
         /\ mt' \in [{random_state} -> Perms(n)]
    /\ pc' = "encode"
    /\ UNCHANGED <<le_classes, yTransformed, scaler, scaler_fits, Xauto, test_size,
                   np_random, train, test, XTrain, XTest, yTrain, yTest, runs,
                   firstSplit, split_rng>>

\* le.fit(y); yTransformed = le.transform(y)
Encode ==
    /\ UNCHANGED <<searchVars, metricVars, extraVars>>
    /\ pc = "encode"
    /\ le_classes' = LabelEncoderFit(y)
    /\ yTransformed' = LabelEncoderTransform(LabelEncoderFit(y), y)
    /\ pc' = "scale"
    /\ UNCHANGED <<X, y, scaler, scaler_fits, Xauto, test_size, mt, np_random, train,
                   test, XTrain, XTest, yTrain, yTest, runs, firstSplit, split_rng>>

\* Xauto = preprocessing.StandardScaler().fit_transform(X)
Scale ==
    /\ UNCHANGED <<searchVars, metricVars, extraVars>>
    /\ pc = "scale"
    /\ scaler' = StandardScalerFit(X)
    /\ scaler_fits' = scaler_fits + 1
    /\ Xauto' = [i \in 1..Len(X) |-> StandardScalerTransform(StandardScalerFit(X), X[i])]
    /\ pc' = "split"
    /\ UNCHANGED <<X, y, le_classes, yTransformed, test_size, mt, np_random, train,
                   test, XTrain, XTest, yTrain, yTest, runs, firstSplit, split_rng>>

\* XTrain, XTest, yTrain, yTest = cv.train_test_split(Xauto, yTransformed,
\*                                    test_size=0.3, random_state=5)
Split ==
    /\ UNCHANGED <<searchVars, metricVars, extraVars>>
    /\ pc = "split"
    /\ \E perm \in SplitPerms(random_state, Len(Xauto)) :
         LET n       == Len(Xauto)
             n_test  == NTest(n, test_size)
             n_train == NTrain(n, test_size)
             te      == ShuffleSplitTest(perm, n_test)
             tr      == ShuffleSplitTrain(perm, n_test, n_train)
         IN  /\ train' = tr /\ test' = te
             /\ XTrain' = Take(Xauto, tr) /\ XTest' = Take(Xauto, te)
             /\ yTrain' = Take(yTransformed, tr) /\ yTest' = Take(yTransformed, te)
             /\ firstSplit' = IF firstSplit = None THEN <<tr, te>> ELSE firstSplit
    /\ runs' = runs + 1
    /\ split_rng' = np_random
    /\ pc' = "random_search"
    /\ UNCHANGED <<X, y, le_classes, yTransformed, scaler, scaler_fits, Xauto,
                   test_size, mt, np_random>>

\* random_search.fit(XTrain, yTrain): n_iter draws of randint(1,200).rvs(), which
\* reads the global generator (no random_state is passed)
RandomSearchCell ==
    /\ UNCHANGED <<searchVars, metricVars, extraVars>>
    /\ pc = "random_search"
    /\ np_random' = np_random + n_iter
    /\ pc' = "done"
    /\ UNCHANGED <<X, y, le_classes, yTransformed, scaler, scaler_fits, Xauto,
                   test_size, mt, train, test, XTrain, XTest, yTrain, yTest, runs,
                   firstSplit, split_rng>>

\* the split cell is executed again in the same kernel session
RerunSplit ==
    /\ UNCHANGED <<searchVars, metricVars, extraVars>>
    /\ pc = "done"
    /\ runs < MaxRuns
    /\ pc' = "split"
    /\ UNCHANGED <<X, y, le_classes, yTransformed, scaler, scaler_fits, Xauto,
                   test_size, mt, np_random, train, test, XTrain, XTest, yTrain,
                   yTest, runs, firstSplit, split_rng>>

PipeNext == Load \/ Encode \/ Scale \/ Split \/ RandomSearchCell \/ RerunSplit

vars == <<pipeVars, searchVars, metricVars, extraVars>>

Init == PipeInit /\ SearchIdle /\ MetricsIdle /\ ExtraIdle
Next == PipeNext
Spec == Init /\ [][Next]_vars

\* ------------------------------------------------------- cross-validation
\* cv.KFold(n, n_folds) without shuffling: consecutive slices, the first
\* n % n_folds of them one row longer
KFoldSize(n, k, f) == (n \div k) + (IF f <= n % k THEN 1 ELSE 0)

RECURSIVE KFoldStart(_, _, _)
KFoldStart(n, k, f) ==
    IF f = 1 THEN 0 ELSE KFoldStart(n, k, f - 1) + KFoldSize(n, k, f - 1)

\* the fold whose test slice holds position pos (positions count from 1)
KFoldOf(n, k, pos) ==
    CHOOSE f \in 1..k :
        KFoldStart(n, k, f) < pos /\ pos <= KFoldStart(n, k, f) + KFoldSize(n, k, f)

\* cv=<int> with a classifier is StratifiedKFold(y, k): the rows of each class,
\* in order, are dealt to the folds by KFold(max(count, k), k)
StratifiedFoldOf(labels, k, pos) ==
    LET same == {q \in 1..Len(labels) : labels[q] = labels[pos]}
        rank == Cardinality({q \in same : q <= pos})
        m    == IF Cardinality(same) > k THEN Cardinality(same) ELSE k
    IN  KFoldOf(m, k, rank)

TestFoldOf(data, pos) ==
    IF cv_kind = "kfold" THEN KFoldOf(Len(data.rows), n_folds, pos)
                         ELSE StratifiedFoldOf(data.labels, n_folds, pos)

\* the search fitted on the whole dataset
FitData_Whole == [rows |-> train \o test, labels |-> yTrain \o yTest]

\* the arrays handed to the search: grid.fit(XTrain, yTrain)
\* fitting on the held-out rows
FitData_Test == [rows |-> test, labels |-> yTest]

FitData == [rows |-> train, labels |-> yTrain]

\* per fold: the dataset rows validated on and the rows fitted on
CVFolds(data) ==
    [f \in 1..n_folds |->
        LET pos == {q \in 1..Len(data.rows) : TestFoldOf(data, q) = f}
        IN  [val |-> {data.rows[q] : q \in pos},
             fit |-> {data.rows[q] : q \in (1..Len(data.rows)) \ pos}]]

\* mean_validation_score with iid=True (the default): each fold's score is
\* weighted by the fold's row count, sum(score_f * n_f) / sum(n_f)
MeanScore(cv) ==
    [num |-> SumSeq([f \in 1..Len(cv) |-> cv[f].correct]),
     den |-> SumSeq([f \in 1..Len(cv) |-> cv[f].n_test])]

Less(a, b) == a.num * b.den < b.num * a.den

\* ------------------------------------------------------ parameter spaces
\* zip of the candidate lists instead of their product
ParameterGridLen_Zip(space) == Min({space[1].size, space[2].size})

\* len(ParameterGrid(space))
ParameterGridLen(space) == space[1].size * space[2].size

\* ParameterGrid iterates the product of the candidate lists with the names in
\* sorted order, the last name varying fastest
ParameterGridPoint(space, i) ==
    <<((i - 1) \div space[2].size) + 1, ((i - 1) % space[2].size) + 1>>

ParameterSpace(space) == (1..space[1].size) \X (1..space[2].size)

AllLists(space) == \A i \in 1..Len(space) : space[i].kind = "list"

\* every draw independent, whatever the kind of the parameters
ParameterSampler_WithReplacement(space, drawn) == ParameterSpace(space)

\* ParameterSampler: what the next draw may be, given the settings drawn so far.
\* All lists: sample_without_replacement over the grid.  Otherwise each value is
\* drawn on its own (v.rvs() or v[rnd.randint(len(v))])
ParameterSampler(space, drawn) ==
    IF AllLists(space) THEN ParameterSpace(space) \ drawn ELSE ParameterSpace(space)

\* the first setting with the highest score, scanning from the end
BestIndex_Last(scores) ==
    CHOOSE i \in 1..Len(scores) :
        /\ \A j \in 1..Len(scores) : ~Less(scores[i].mean, scores[j].mean)
        /\ \A j \in (i + 1)..Len(scores) : Less(scores[j].mean, scores[i].mean)

\* sorted(grid_scores, key=mean_validation_score, reverse=True)[0]: the sort is
\* stable, so among equal scores the earliest entry comes first
BestIndex(scores) ==
    CHOOSE i \in 1..Len(scores) :
        /\ \A j \in 1..Len(scores) : ~Less(scores[i].mean, scores[j].mean)
        /\ \A j \in 1..(i - 1) : Less(scores[j].mean, scores[i].mean)

\* how many settings the search evaluates
SearchLen == IF s_kind = "grid" THEN ParameterGridLen(param_space) ELSE n_iter

\* ParameterSampler raises ValueError: the grid is smaller than n_iter
SamplerFails ==
    s_kind = "random" /\ AllLists(param_space) /\ ParameterGridLen(param_space) < n_iter

Drawn == {grid_scores[i].parameters : i \in 1..Len(grid_scores)}

\* ------------------------------------------------- the search's fit call
KFoldRowCounts == {3, 5}          \* dataset rows when the folds are KFold's
StratifiedRowCounts == {6}        \* dataset rows when the folds are stratified
FoldCounts == {2, 3}
ParamSizes == {1, 2}
Identity(n) == [i \in 1..n |-> i]

\* the state after the split cell, as far as a search reads it: the split of
\* n rows with test_size=0.3 and the training labels; what a search does not
\* read is held fixed
SearchInit ==
    /\ pc = "search"
    /\ X = <<>> /\ y = <<>> /\ le_classes = <<>> /\ yTransformed = <<>>
    /\ scaler = None /\ scaler_fits = 1 /\ Xauto = <<>>
    /\ test_size = 3
    /\ np_random = 0 /\ runs = 1 /\ firstSplit = None /\ split_rng = 0
    /\ XTrain = <<>> /\ XTest = <<>>
    /\ \E n \in KFoldRowCounts \cup StratifiedRowCounts :
         /\ mt = [s \in {random_state} |-> Identity(n)]
         /\ test = ShuffleSplitTest(mt[random_state], NTest(n, test_size))
         /\ train = ShuffleSplitTrain(mt[random_state], NTest(n, test_size),
                                      NTrain(n, test_size))
         /\ yTest = [i \in 1..NTest(n, test_size) |-> 0]
         /\ cv_kind \in {"kfold", "stratified"}
         /\ n \in (IF cv_kind = "kfold" THEN KFoldRowCounts ELSE StratifiedRowCounts)
         /\ n_folds \in FoldCounts
         /\ n_folds <= NTrain(n, test_size)
         /\ yTrain \in [1..NTrain(n, test_size) -> {0, 1}]
         /\ IF cv_kind = "kfold"
              THEN \A i \in 1..Len(yTrain) : yTrain[i] = i % 2
              ELSE \A c \in {0, 1} :
                      Cardinality({i \in 1..Len(yTrain) : yTrain[i] = c}) >= n_folds
    /\ s_pc = "check_cv" /\ cv_iter = <<>>
    /\ s_kind \in {"grid", "random"}
    /\ param_space \in [1..2 -> [kind : {"list", "dist"}, size : ParamSizes]]
    /\ s_kind = "grid" => AllLists(param_space)
    /\ param_space[2].kind = "list"
    /\ s_kind = "random" => cv_kind = "stratified"
    /\ grid_scores = <<>> /\ n_fits = 0
    /\ best_params = None /\ best_score = None
    /\ MetricsIdle /\ ExtraIdle

\* fit begins: cv = check_cv(cv, X, y, classifier=...) fixes the folds
CheckCV ==
    /\ s_pc = "check_cv"
    /\ cv_iter' = CVFolds(FitData)
    /\ s_pc' = "fit"
    /\ UNCHANGED <<s_kind, cv_kind, n_folds, param_space, grid_scores, n_fits,
                   best_params, best_score>>
    /\ UNCHANGED <<pipeVars, metricVars, extraVars>>

\* one setting is cross-validated: n_folds fits, each scored on its held-out
\* fold; the entry is appended to grid_scores_
EvaluateNext ==
    /\ s_pc = "fit"
    /\ ~SamplerFails
    /\ Len(grid_scores) < SearchLen
    /\ \E setting \in (IF s_kind = "grid"
                         THEN {ParameterGridPoint(param_space, Len(grid_scores) + 1)}
                         ELSE ParameterSampler(param_space, Drawn)) :
       \E correct \in [1..n_folds -> 0..Len(train \o test)] :
          LET cv == [f \in 1..n_folds |->
                       [correct |-> correct[f], n_test |-> Cardinality(cv_iter[f].val),
                        val |-> cv_iter[f].val, fit |-> cv_iter[f].fit]]
          IN  /\ \A f \in 1..n_folds : correct[f] <= Cardinality(cv_iter[f].val)
              /\ grid_scores' = Append(grid_scores,
                     [parameters |-> setting, mean |-> MeanScore(cv), cv |-> cv])
    /\ n_fits' = n_fits + n_folds
    /\ UNCHANGED <<s_pc, s_kind, cv_kind, n_folds, cv_iter, param_space, best_params,
                   best_score>>
    /\ UNCHANGED <<pipeVars, metricVars, extraVars>>

\* best_params_ and best_score_ are taken from the sorted grid_scores_
SelectBest ==
    /\ s_pc = "fit"
    /\ ~SamplerFails
    /\ Len(grid_scores) = SearchLen
    /\ best_params' = grid_scores[BestIndex(grid_scores)].parameters
    /\ best_score' = grid_scores[BestIndex(grid_scores)].mean
    /\ s_pc' = "done"
    /\ UNCHANGED <<s_kind, cv_kind, n_folds, cv_iter, param_space, grid_scores, n_fits>>
    /\ UNCHANGED <<pipeVars, metricVars, extraVars>>

\* the sampler's ValueError ends fit before anything is evaluated
SamplerError ==
    /\ s_pc = "fit"
    /\ SamplerFails
    /\ s_pc' = "error"
    /\ UNCHANGED <<s_kind, cv_kind, n_folds, cv_iter, param_space, grid_scores, n_fits,
                   best_params, best_score>>
    /\ UNCHANGED <<pipeVars, metricVars, extraVars>>

SearchNext == CheckCV \/ EvaluateNext \/ SelectBest \/ SamplerError

SpecSearch == SearchInit /\ [][SearchNext]_vars

\* ------------------------------------------------------- accuracy_score
MaxLabels == 3
ClassCodes == {0, 1, 2}

\* the share of positions that differ (the zero-one loss)
accuracy_score_Loss(yt, yp) ==
    [num |-> Cardinality({i \in 1..Len(yt) : yt[i] # yp[i]}), den |-> Len(yt)]

\* metrics.accuracy_score(y_true, y_pred): mean(y_true == y_pred)
accuracy_score(yt, yp) ==
    [num |-> Cardinality({i \in 1..Len(yt) : yt[i] = yp[i]}), den |-> Len(yt)]

MetricsInit ==
    /\ PipeInit /\ SearchIdle /\ ExtraIdle
    /\ test_size = 3
    /\ \E n \in 1..MaxLabels :
         /\ y_true \in [1..n -> ClassCodes]
         /\ y_pred \in [1..n -> ClassCodes]
    /\ accuracy = None

AccuracyScore ==
    /\ accuracy = None
    /\ accuracy' = accuracy_score(y_true, y_pred)
    /\ UNCHANGED <<y_true, y_pred, pipeVars, searchVars, extraVars>>

SpecMetrics == MetricsInit /\ [][AccuracyScore]_vars

\* ------------------------------------------------------- the model cells
\* an arange that ignores its step
Arange_Step1(start, stop, step) == [i \in 1..(stop - start) |-> start + (i - 1)]

\* np.arange(start, stop, step) for a positive step
Arange(start, stop, step) ==
    [i \in 1..((stop - start + step - 1) \div step) |-> start + (i - 1) * step]

\* the candidate lists of the grids; a power of two is kept as its exponent
n_neighbors == Arange(1, 50, 2)
weights == <<"uniform", "distance">>
g_range == Arange(-15, 5, 2)
C_range == Arange(-5, 15, 2)
pen == <<"l1", "l2">>
layer_size_range == <<"(3,2)", "(10,10)", "(2,2,2)", "10", "5">>
learning_rate_range == <<"0.1", "0.55", "1.0">>

\* the default n_neighbors=3 cell and the C=0.5 of the logistic regression
\* cell (0.5 = 2^-1)
knn3_n_neighbors == 3
lr_C == -1

ModelRowCounts == {3, 4, 5}

\* estimator.fit(data): the fitted estimator is determined by its parameters
\* and the rows it was fitted on
Fit(params, data) == [params |-> params, fitted |-> Range(data.rows)]

\* estimator.predict(XTest): determined by the fitted estimator and the rows
Predict(est, rows) == [by |-> est, rows |-> Range(rows)]

LogFit(name) == fit_log \cup {[est |-> name, rows |-> Range(FitData.rows)]}
LogPredict(name) == predict_log \cup {[est |-> name, rows |-> Range(test)]}

\* the state after the split cell, as far as the model cells read it
ModelsInit ==
    /\ pc = "knn3"
    /\ X = <<>> /\ y = <<>> /\ le_classes = <<>> /\ yTransformed = <<>>
    /\ scaler = None /\ scaler_fits = 1 /\ Xauto = <<>>
    /\ test_size = 3
    /\ np_random = 0 /\ runs = 1 /\ firstSplit = None /\ split_rng = 0
    /\ XTrain = <<>> /\ XTest = <<>>
    /\ \E n \in ModelRowCounts :
         /\ mt = [s \in {random_state} |-> Identity(n)]
         /\ test = ShuffleSplitTest(mt[random_state], NTest(n, test_size))
         /\ train = ShuffleSplitTrain(mt[random_state], NTest(n, test_size),
                                      NTrain(n, test_size))
         /\ yTest = [i \in 1..NTest(n, test_size) |-> i % 2]
         /\ yTrain = [i \in 1..NTrain(n, test_size) |-> i % 2]
    /\ SearchIdle /\ MetricsIdle /\ ExtraIdle

\* a cell that fits an estimator on (XTrain, yTrain), predicts XTest and prints
\* the score, and whose variables no later cell reads
FitPredictCell(at, next, name) ==
    /\ pc = at
    /\ fit_log' = LogFit(name)
    /\ predict_log' = LogPredict(name)
    /\ pc' = next
    /\ UNCHANGED <<knn3, knn, yPredKnn, grid_best_params, gridcv_best_params, best_c,
                   best_penalty, l_regression, net_prediction>>

\* a cell that runs a search on (XTrain, yTrain) and keeps no result
SearchCell(at, next, name) ==
    /\ pc = at
    /\ fit_log' = LogFit(name)
    /\ pc' = next
    /\ UNCHANGED <<predict_log, knn3, knn, yPredKnn, grid_best_params,
                   gridcv_best_params, best_c, best_penalty, l_regression,
                   net_prediction>>

ModelsFrame ==
    UNCHANGED <<X, y, le_classes, yTransformed, scaler, scaler_fits, Xauto, test_size,
                mt, np_random, train, test, XTrain, XTest, yTrain, yTest, runs,
                firstSplit, split_rng, searchVars, metricVars, voteVars, heatVars>>

\* knn3 = KNeighborsClassifier(n_neighbors=3); knn3.fit(XTrain, yTrain);
\* yPredK3 = knn3.predict(XTest)
Knn3Cell ==
    /\ pc = "knn3"
    /\ knn3' = Fit(<<knn3_n_neighbors, "uniform">>, FitData)
    /\ fit_log' = LogFit("knn3")
    /\ predict_log' = LogPredict("knn3")
    /\ pc' = "knn100"
    /\ UNCHANGED <<knn, yPredKnn, grid_best_params, gridcv_best_params, best_c,
                   best_penalty, l_regression, net_prediction>>
    /\ ModelsFrame

Knn100Cell == FitPredictCell("knn100", "knnW3", "knn100") /\ ModelsFrame

KnnW3Cell == FitPredictCell("knnW3", "knn_grid", "knnW3") /\ ModelsFrame

\* grid = GridSearchCV(KNeighborsClassifier(), parameters, cv=10);
\* grid.fit(XTrain, yTrain): which candidate wins depends on the data
KnnGridCell ==
    /\ pc = "knn_grid"
    /\ fit_log' = LogFit("grid")
    /\ \E i \in 1..Len(n_neighbors), j \in 1..Len(weights) :
         grid_best_params' = <<n_neighbors[i], weights[j]>>
    /\ pc' = "knn_best"
    /\ UNCHANGED <<predict_log, knn3, knn, yPredKnn, gridcv_best_params, best_c,
                   best_penalty, l_regression, net_prediction>>
    /\ ModelsFrame

\* knn = KNeighborsClassifier(n_neighbors=grid.best_params_[...], weights=...);
\* knn.fit(XTrain, yTrain); yPredKnn = knn3.predict(XTest)
KnnBestCell ==
    /\ pc = "knn_best"
    /\ knn' = Fit(grid_best_params, FitData)
    /\ fit_log' = LogFit("knn")
    /\ yPredKnn' = Predict(knn3, test)
    /\ predict_log' = LogPredict("knn3")
    /\ pc' = "knn_random"
    /\ UNCHANGED <<knn3, grid_best_params, gridcv_best_params, best_c, best_penalty,
                   l_regression, net_prediction>>
    /\ ModelsFrame

\* random_search.fit(XTrain, yTrain)
KnnRandomSearchCell == SearchCell("knn_random", "svm_linear", "random_search") /\ ModelsFrame

SvmLinearCell == FitPredictCell("svm_linear", "svm_rbf", "linearSVM") /\ ModelsFrame

SvmRbfCell == FitPredictCell("svm_rbf", "svm_grid", "rbfSVM") /\ ModelsFrame

\* grid = [{'gamma': g_range, 'C': C_range}]; gridcv = GridSearchCV(SVC(), ...);
\* gridcv.fit(XTrain, yTrain).  The name grid is rebound to the list.
SvmGridCell ==
    /\ pc = "svm_grid"
    /\ fit_log' = LogFit("gridcv")
    /\ grid_best_params' = None
    /\ \E i \in 1..Len(C_range), j \in 1..Len(g_range) :
         gridcv_best_params' = <<C_range[i], g_range[j]>>
    /\ pc' = "svm_best"
    /\ UNCHANGED <<predict_log, knn3, knn, yPredKnn, best_c, best_penalty,
                   l_regression, net_prediction>>
    /\ ModelsFrame

\* rbfSVM = SVC(kernel='rbf', C=gridcv.best_params_['C'], gamma=...)
SvmBestCell == FitPredictCell("svm_best", "lr", "rbfSVM") /\ ModelsFrame

\* l_regression = LogisticRegression(); fit; net_prediction = predict(XTest)
LrCell ==
    /\ pc = "lr"
    /\ l_regression' = Fit(<<0, "l2">>, FitData)
    /\ fit_log' = LogFit("l_regression")
    /\ net_prediction' = Predict(Fit(<<0, "l2">>, FitData), test)
    /\ predict_log' = LogPredict("l_regression")
    /\ pc' = "lr_grid"
    /\ UNCHANGED <<knn3, knn, yPredKnn, grid_best_params, gridcv_best_params, best_c,
                   best_penalty>>
    /\ ModelsFrame

\* grid = [{'C': C_range, 'penalty': pen}]; gridcv.fit(XTrain, yTrain);
\* best_c = gridcv.best_params_['C']; best_penalty = gridcv.best_params_['penalty']
LrGridCell ==
    /\ pc = "lr_grid"
    /\ fit_log' = LogFit("gridcv")
    /\ \E i \in 1..Len(C_range), j \in 1..Len(pen) :
         /\ gridcv_best_params' = <<C_range[i], pen[j]>>
         /\ best_c' = C_range[i]
         /\ best_penalty' = pen[j]
    /\ pc' = "lr_tuned"
    /\ UNCHANGED <<predict_log, knn3, knn, yPredKnn, grid_best_params, l_regression,
                   net_prediction>>
    /\ ModelsFrame

\* l_regression = LogisticRegression(C=0.5, penalty='l2'); fit; predict
LrTunedCell ==
    /\ pc = "lr_tuned"
    /\ l_regression' = Fit(<<lr_C, "l2">>, FitData)
    /\ fit_log' = LogFit("l_regression")
    /\ net_prediction' = Predict(Fit(<<lr_C, "l2">>, FitData), test)
    /\ predict_log' = LogPredict("l_regression")
    /\ pc' = "nnet"
    /\ UNCHANGED <<knn3, knn, yPredKnn, grid_best_params, gridcv_best_params, best_c,
                   best_penalty>>
    /\ ModelsFrame

\* nnet = MultilayerPerceptronClassifier(activation='logistic',
\*            hidden_layer_sizes=2, learning_rate_init=.5); fit; predict
NnetCell ==
    /\ pc = "nnet"
    /\ fit_log' = LogFit("nnet")
    /\ net_prediction' = Predict(Fit(<<"2", "0.5">>, FitData), test)
    /\ predict_log' = LogPredict("nnet")
    /\ pc' = "nnet_grid"
    /\ UNCHANGED <<knn3, knn, yPredKnn, grid_best_params, gridcv_best_params, best_c,
                   best_penalty, l_regression>>
    /\ ModelsFrame

\* grid = [{'hidden_layer_sizes': ..., 'learning_rate_init': ...}]; gridcv.fit
NnetGridCell ==
    /\ pc = "nnet_grid"
    /\ fit_log' = LogFit("gridcv")
    /\ \E i \in 1..Len(layer_size_range), j \in 1..Len(learning_rate_range) :
         gridcv_best_params' = <<layer_size_range[i], learning_rate_range[j]>>
    /\ pc' = "nnet_best"
    /\ UNCHANGED <<predict_log, knn3, knn, yPredKnn, grid_best_params, best_c,
                   best_penalty, l_regression, net_prediction>>
    /\ ModelsFrame

\* nnet = MultilayerPerceptronClassifier(hidden_layer_sizes=best_size,
\*            learning_rate_init=best_best_lr); fit; predict
NnetBestCell ==
    /\ pc = "nnet_best"
    /\ fit_log' = LogFit("nnet")
    /\ net_prediction' = Predict(Fit(gridcv_best_params, FitData), test)
    /\ predict_log' = LogPredict("nnet")
    /\ pc' = "end"
    /\ UNCHANGED <<knn3, knn, yPredKnn, grid_best_params, gridcv_best_params, best_c,
                   best_penalty, l_regression>>
    /\ ModelsFrame

ModelsNext ==
    \/ Knn3Cell \/ Knn100Cell \/ KnnW3Cell \/ KnnGridCell \/ KnnBestCell
    \/ KnnRandomSearchCell \/ SvmLinearCell \/ SvmRbfCell \/ SvmGridCell
    \/ SvmBestCell \/ LrCell \/ LrGridCell \/ LrTunedCell \/ NnetCell
    \/ NnetGridCell \/ NnetBestCell

SpecModels == ModelsInit /\ [][ModelsNext]_vars


\* ------------------------------------------- KNeighborsClassifier.predict
\* the uniform vote: the mode of the K neighbours' labels; of two classes with
\* the same count the smaller code is returned
UniformVote(votes) ==
    LET top == CHOOSE c \in 1..Len(votes) : \A d \in 1..Len(votes) : votes[c] >= votes[d]
    IN  [label |-> Min({c \in 1..Len(votes) : votes[c] = votes[top]}) - 1,
         tie   |-> Cardinality({c \in 1..Len(votes) : votes[c] = votes[top]}) > 1]

\* a classifier of the KNN grid (weights='uniform') is asked for one query
\* point: K is a candidate of the grid, and the K nearest neighbours carry the
\* two class codes in any proportion
VoteInit ==
    /\ PipeInit /\ test_size = 3 /\ SearchIdle /\ MetricsIdle /\ ModelsIdle
    /\ HeatIdle
    /\ vote_pc = "query"
    /\ K \in Range(n_neighbors)
    /\ \E c1 \in 0..K : neigh_votes = <<K - c1, c1>>
    /\ vote = None

KnnPredict ==
    /\ vote_pc = "query"
    /\ vote' = UniformVote(neigh_votes)
    /\ vote_pc' = "done"
    /\ UNCHANGED <<K, neigh_votes, pipeVars, searchVars, metricVars, modelVars, heatVars>>

SpecKnn == VoteInit /\ [][KnnPredict]_vars

\* -------------------------------------------------------- the heatmaps
\* np.array(flat).reshape(rows, cols): row-major
Reshape(flat, rows, cols) ==
    [r \in 1..rows |-> [c \in 1..cols |-> flat[(r - 1) * cols + c]]]

\* np.transpose of a matrix
Transpose(M) == [c \in 1..Len(M[1]) |-> [r \in 1..Len(M) |-> M[r][c]]]

\* the candidate lists of each search's grid, by parameter name in sorted
\* order: 'n_neighbors' < 'weights', 'C' < 'gamma', 'C' < 'penalty',
\* 'hidden_layer_sizes' < 'learning_rate_init'
GridLists(kind) ==
    CASE kind = "knn"  -> <<n_neighbors, weights>>
      [] kind = "svm"  -> <<C_range, g_range>>
      [] kind = "lr"   -> <<C_range, pen>>
      [] kind = "nnet" -> <<layer_size_range, learning_rate_range>>

\* grid_scores_ of a finished grid search over the two lists: one entry per
\* combination, in ParameterGrid's order, with the given mean scores
GridScoresOf(lists, means) ==
    LET space == [i \in 1..2 |-> [kind |-> "list", size |-> Len(lists[i])]]
    IN  [k \in 1..Len(means) |->
           [parameters |-> <<lists[1][ParameterGridPoint(space, k)[1]],
                             lists[2][ParameterGridPoint(space, k)[2]]>>,
            mean |-> means[k]]]

\* scores = [x[1] for x in score_dict]
MeansOf(sd) == [k \in 1..Len(sd) |-> sd[k].mean]

\* the mean scores a search may have recorded: one combination stands out
HeatMeans(n) == {[k \in 1..n |-> IF k = h THEN 1 ELSE 0] : h \in 1..n}

\* the state before a heatmap cell: its search has finished
HeatInit ==
    /\ PipeInit /\ test_size = 3 /\ SearchIdle /\ MetricsIdle /\ ModelsIdle /\ VoteIdle
    /\ h_pc = "plot"
    /\ h_kind \in {"knn", "svm", "lr", "nnet"}
    /\ \E means \in HeatMeans(Len(GridLists(h_kind)[1]) * Len(GridLists(h_kind)[2])) :
         score_dict = GridScoresOf(GridLists(h_kind), means)
    /\ heat_scores = <<>> /\ xticks = None /\ yticks = None

HeatFrame ==
    /\ h_pc' = "shown"
    /\ UNCHANGED <<h_kind, score_dict, pipeVars, searchVars, metricVars, modelVars,
                   voteVars>>

\* scores = np.array(scores).reshape(len(n_neighbors), len(weights));
\* scores = np.transpose(scores); xticks n_neighbors, yticks weights
KnnHeatmap ==
    /\ h_pc = "plot" /\ h_kind = "knn"
    /\ heat_scores' = Transpose(Reshape(MeansOf(score_dict), Len(n_neighbors), Len(weights)))
    /\ xticks' = [param |-> 1, labels |-> n_neighbors]
    /\ yticks' = [param |-> 2, labels |-> weights]
    /\ HeatFrame

\* scores = np.array(scores).reshape(len(C_range), len(g_range));
\* xticks log2(g_range), yticks log2(C_range)
SvmHeatmap ==
    /\ h_pc = "plot" /\ h_kind = "svm"
    /\ heat_scores' = Reshape(MeansOf(score_dict), Len(C_range), Len(g_range))
    /\ xticks' = [param |-> 2, labels |-> g_range]
    /\ yticks' = [param |-> 1, labels |-> C_range]
    /\ HeatFrame

\* scores = np.array(scores).reshape(len(pen), len(C_range));
\* scores = np.transpose(scores); xticks pen, yticks C_range
LrHeatmap ==
    /\ h_pc = "plot" /\ h_kind = "lr"
    /\ heat_scores' = Transpose(Reshape(MeansOf(score_dict), Len(pen), Len(C_range)))
    /\ xticks' = [param |-> 2, labels |-> pen]
    /\ yticks' = [param |-> 1, labels |-> C_range]
    /\ HeatFrame

\* scores = np.array(scores).reshape(len(layer_size_range),
\*     len(learning_rate_range)); scores = np.transpose(scores);
\* xticks layer_size_range, yticks learning_rate_range
NnetHeatmap ==
    /\ h_pc = "plot" /\ h_kind = "nnet"
    /\ heat_scores' = Transpose(Reshape(MeansOf(score_dict), Len(layer_size_range),
                                   Len(learning_rate_range)))
    /\ xticks' = [param |-> 1, labels |-> layer_size_range]
    /\ yticks' = [param |-> 2, labels |-> learning_rate_range]
    /\ HeatFrame

HeatNext == KnnHeatmap \/ SvmHeatmap \/ LrHeatmap \/ NnetHeatmap

SpecHeatmap == HeatInit /\ [][HeatNext]_vars

\* ------------------------------------------------------------ properties
SplitDone == runs >= 1

\* C1: after the split, the training and test row indices are disjoint, their
\* union is every row of the dataset, no index is repeated, and the row counts
\* of XTrain and XTest add up to the row count of the dataset.
C1_SplitPartitions ==
    SplitDone =>
        /\ Range(train) \cap Range(test) = {}
        /\ Range(train) \cup Range(test) = 1..Len(X)
        /\ Cardinality(Range(train)) = Len(train)
        /\ Cardinality(Range(test)) = Len(test)
        /\ Len(XTrain) + Len(XTest) = Len(X)

C1_Witness ==
    SplitDone /\ Len(X) = 3 /\ Len(XTrain) >= 1 /\ Len(XTest) >= 1

\* C2 as stated: the test subset has round(test_size * n) rows (whatever the
\* rounding of a half: the count is within 1/2 of test_size * n) and the
\* training subset has the rest.
C2_CutAtRound ==
    SplitDone =>
        LET d == TestSizeDen * Len(test) - test_size * Len(X)
        IN  /\ 2 * d <= TestSizeDen /\ -2 * d <= TestSizeDen
            /\ Len(train) = Len(X) - Len(test)

\* C2 amended: the permuted row indices are cut at ceil(test_size * n): the
\* test subset is the first ceil(test_size * n) entries of the permutation and
\* the training subset is the remaining n - ceil(test_size * n) entries.
C2_CutAtCeil ==
    SplitDone =>
        LET k == Len(test)
            n == Len(X)
            perm == mt[random_state]
        IN  /\ TestSizeDen * k >= test_size * n
            /\ TestSizeDen * (k - 1) < test_size * n
            /\ Len(train) = n - k
            /\ test = [i \in 1..k |-> perm[i]]
            /\ train = [i \in 1..(n - k) |-> perm[k + i]]
            /\ Len(XTest) = k /\ Len(XTrain) = n - k

C2_Witness ==
    SplitDone /\ Len(X) = 3 /\ test_size = 5 /\ Len(test) = 2 /\ Len(train) = 1

\* C3: every execution of the split on the same matrix, labels and test
\* fraction with random_state=5 yields the index sets of the first execution,
\* whatever was drawn from the global generator in between.
C3_SplitDeterministic ==
    firstSplit # None => <<train, test>> = firstSplit

C3_Witness ==
    runs = 2 /\ split_rng > 0 /\ Len(X) = 3 /\ pc = "random_search"

\* C4: decoding the encoded labels returns the original labels, different
\* label values get different codes, equal values get equal codes, and the
\* codes are 0..k-1 for k distinct values.
C4_EncodingBijective ==
    pc \notin {"load", "encode"} =>
        /\ LabelEncoderInverse(le_classes, yTransformed) = y
        /\ \A i, j \in 1..Len(y) : (y[i] = y[j]) <=> (yTransformed[i] = yTransformed[j])
        /\ Range(yTransformed) = 0..(Cardinality(Range(y)) - 1)

C4_Witness ==
    pc = "scale" /\ Cardinality(Range(y)) = 3 /\ y[1] = 77 /\ yTransformed[1] = 2

\* the mean and standard deviation of the whole column, as [n, sum, sumsq]
WholeDatasetParams ==
    [n |-> Len(X), sum |-> SumSeq(X), sumsq |-> SumSeq([i \in 1..Len(X) |-> X[i] * X[i]])]

\* C5: the scaler is fitted at most once; from the split cell on it has been
\* fitted exactly once and holds the parameters of the whole dataset; every
\* row of XTrain and of XTest is its original row scaled with those parameters.
C5_ScaledOnceBeforeSplit ==
    /\ scaler_fits <= 1
    /\ pc \notin {"load", "encode", "scale"} =>
          /\ scaler_fits = 1
          /\ scaler = WholeDatasetParams
    /\ SplitDone =>
          /\ \A i \in 1..Len(train) :
                XTrain[i] = Xauto[train[i]]
          /\ \A i \in 1..Len(test) :
                XTest[i] = Xauto[test[i]]

C5_Witness ==
    /\ runs = 2 /\ pc = "done"
    /\ Len(train) >= 1 /\ Len(test) >= 1
    /\ X[1] # X[2]

\* ---- the searches
GridSize == param_space[1].size * param_space[2].size

\* C6: a finished grid search has evaluated every element of the Cartesian
\* product of the candidate lists exactly once (as many entries and as many
\* rounds of n_folds fits as the product has elements, none repeated); a
\* finished randomized search has evaluated exactly n_iter settings.
C6_EvaluationCount ==
    /\ n_fits = Len(grid_scores) * n_folds
    /\ s_pc = "done" /\ s_kind = "grid" =>
          /\ Len(grid_scores) = GridSize
          /\ Drawn = (1..param_space[1].size) \X (1..param_space[2].size)
    /\ s_pc = "done" /\ s_kind = "random" => Len(grid_scores) = n_iter

C6_Witness ==
    s_pc = "done" /\ s_kind = "grid" /\ Len(grid_scores) = 4 /\ n_fits = 4 * n_folds

\* C7: the grid search reports the setting with the highest mean score, and
\* among several with that score the one evaluated first.
C7_BestIsFirstHighest ==
    s_pc = "done" /\ s_kind = "grid" =>
        \E i \in 1..Len(grid_scores) :
            /\ best_params = grid_scores[i].parameters
            /\ best_score = grid_scores[i].mean
            /\ \A j \in 1..Len(grid_scores) :
                  grid_scores[j].mean.num * best_score.den
                      <= best_score.num * grid_scores[j].mean.den
            /\ \A j \in 1..(i - 1) :
                  grid_scores[j].mean.num * best_score.den
                      < best_score.num * grid_scores[j].mean.den

C7_Witness ==
    /\ s_pc = "done" /\ s_kind = "grid" /\ Len(grid_scores) = 4
    /\ best_params = grid_scores[2].parameters
    /\ grid_scores[4].mean = grid_scores[2].mean
    /\ Less(grid_scores[1].mean, grid_scores[2].mean)

\* C8: in a randomized search every evaluated setting lies in the parameter
\* space, and when every parameter is a list no setting is evaluated twice.
\* (That a distribution-valued parameter is drawn with replacement is the
\* reachable state C8_Witness.)
C8_ListsWithoutReplacement ==
    s_kind = "random" =>
        /\ \A i \in 1..Len(grid_scores) :
              /\ grid_scores[i].parameters[1] \in 1..param_space[1].size
              /\ grid_scores[i].parameters[2] \in 1..param_space[2].size
        /\ (param_space[1].kind = "list" /\ param_space[2].kind = "list") =>
              \A i, j \in 1..Len(grid_scores) :
                  i # j => grid_scores[i].parameters # grid_scores[j].parameters

\* the notebook's kind of search: one distribution-valued parameter, and the
\* same value drawn twice although another value was available
C8_Witness ==
    /\ s_kind = "random" /\ s_pc = "done"
    /\ param_space[1].kind = "dist" /\ param_space[1].size = 2
    /\ param_space[2].size = 1
    /\ grid_scores[1].parameters = grid_scores[2].parameters

\* the plain average of the fold scores: sum(correct_f / n_f) / k, as a
\* fraction over the product of the fold sizes
RECURSIVE ProdSizes(_, _)
ProdSizes(cv, skip) ==
    IF cv = <<>> THEN 1
    ELSE (IF skip = 1 THEN 1 ELSE cv[1].n_test) * ProdSizes(Tail(cv), skip - 1)

MeanScore_Plain(cv) ==
    [num |-> SumSeq([f \in 1..Len(cv) |-> cv[f].correct * ProdSizes(cv, f)]),
     den |-> Len(cv) * ProdSizes(cv, 0)]


CorrectTotal(e) == SumSeq([f \in 1..Len(e.cv) |-> e.cv[f].correct])

\* the folds of entry e partition the training rows, every fit is on the
\* other folds, and no test row is fitted or validated on
FoldsPartitionTraining(e) ==
    /\ Len(e.cv) = n_folds
    /\ \A f, g \in 1..n_folds : f # g => e.cv[f].val \cap e.cv[g].val = {}
    /\ UNION {e.cv[f].val : f \in 1..n_folds} = Range(train)
    /\ \A f \in 1..n_folds :
          /\ e.cv[f].fit = Range(train) \ e.cv[f].val
          /\ e.cv[f].n_test = Cardinality(e.cv[f].val)
          /\ e.cv[f].val \cap Range(test) = {}
          /\ e.cv[f].fit \cap Range(test) = {}

\* C9 as stated: the folds partition the training rows, each fold is validated
\* once by a model fitted on the others, no test row is in a fold, and the
\* recorded score is the plain mean of the fold scores.
C9_PlainMeanOverFolds ==
    \A i \in 1..Len(grid_scores) :
        LET e == grid_scores[i]
        IN  /\ FoldsPartitionTraining(e)
            /\ e.mean.num * MeanScore_Plain(e.cv).den
                  = MeanScore_Plain(e.cv).num * e.mean.den

\* C9 amended: as above, but the recorded score is the fold scores averaged
\* with each fold weighted by its row count, i.e. the correctly classified
\* validation rows of all folds over the number of training rows.
C9_WeightedMeanOverFolds ==
    \A i \in 1..Len(grid_scores) :
        LET e == grid_scores[i]
        IN  /\ FoldsPartitionTraining(e)
            /\ e.mean.den > 0
            /\ e.mean.num * Cardinality(Range(train)) = e.mean.den * CorrectTotal(e)

C9_Witness ==
    /\ s_pc = "done" /\ n_folds = 2
    /\ grid_scores[1].cv[1].n_test = 2 /\ grid_scores[1].cv[2].n_test = 1
    /\ grid_scores[1].cv[1].correct = 1 /\ grid_scores[1].cv[2].correct = 1

\* ---- the metric
Agree == {i \in 1..Len(y_true) : y_true[i] = y_pred[i]}

\* C10: the accuracy is the share of positions where the two vectors agree; it
\* lies in [0, 1], is 1 exactly when they agree everywhere, and is 0 when they
\* differ everywhere.
C10_AccuracyIsAgreementShare ==
    accuracy # None =>
        /\ accuracy.den > 0
        /\ accuracy.num * Len(y_true) = accuracy.den * Cardinality(Agree)
        /\ 0 <= accuracy.num /\ accuracy.num <= accuracy.den
        /\ (accuracy.num = accuracy.den) <=> (y_pred = y_true)
        /\ (Agree = {}) => accuracy.num = 0

C10_Witness ==
    accuracy # None /\ Len(y_true) = 3 /\ Cardinality(Agree) = 2 /\ accuracy.num = 2

\* ---- degenerate inputs of the preprocessing and the split
ConstantColumn == \A j, k \in 1..Len(X) : X[j] = X[k]

\* a scaled cell is a defined number (its divisor is not zero), and it is zero
\* when the column is constant
DefinedCell(c) == c.sq > 0 /\ (ConstantColumn => c.num = 0)

\* C11: every scaled cell is a defined number, and the cells of a constant
\* column are all zero; this holds of Xauto and of the rows handed on as
\* XTrain and XTest.
C11_ConstantColumnIsZero ==
    /\ pc \notin {"load", "encode", "scale"} =>
          \A i \in 1..Len(Xauto) : DefinedCell(Xauto[i])
    /\ SplitDone =>
          /\ \A i \in 1..Len(XTrain) : DefinedCell(XTrain[i])
          /\ \A i \in 1..Len(XTest) : DefinedCell(XTest[i])

C11_Witness ==
    /\ SplitDone /\ Len(X) = 3 /\ ConstantColumn /\ X[1] = 1
    /\ Len(XTrain) = 2 /\ XTrain[1].num = 0 /\ XTest[1].num = 0

\* C12: a split that leaves the training subset or the test subset empty does
\* not complete: the notebook never stands at a cell after the split cell with
\* an empty XTrain or XTest.
C12_EmptyPartitionRaises ==
    SplitDone => (Len(XTrain) >= 1 /\ Len(XTest) >= 1)

\* C19: each subset's label vector is as long as its matrix, and at every
\* position the matrix row and the label both come from the same original
\* row: the row is that row of the scaled matrix, the label is the code of that
\* row's label.
C19_RowsAndLabelsAligned ==
    SplitDone =>
        /\ Len(yTrain) = Len(XTrain) /\ Len(yTest) = Len(XTest)
        /\ Len(XTrain) = Len(train) /\ Len(XTest) = Len(test)
        /\ \A i \in 1..Len(train) :
              /\ XTrain[i] = Xauto[train[i]]
              /\ le_classes[yTrain[i] + 1] = y[train[i]]
        /\ \A i \in 1..Len(test) :
              /\ XTest[i] = Xauto[test[i]]
              /\ le_classes[yTest[i] + 1] = y[test[i]]

\* three rows with different labels, split in an order other than file order
C19_Witness ==
    /\ SplitDone /\ Len(X) = 3 /\ Cardinality(Range(y)) = 3
    /\ Len(train) = 2 /\ train[1] > train[2]
    /\ X[train[1]] # X[train[2]]

\* ---- the model cells
\* C14: after the KNN grid search cell and the cell that follows it, the
\* predictions that are scored against yTest are those of the estimator built
\* from the search's best parameters and fitted on the training rows.
C14_ScoredIsOptimised ==
    yPredKnn # None => yPredKnn = Predict(knn, test)

\* C15: every fit, of a single estimator or of a search, is given training rows
\* only, and no row of the test subset; the test rows are only predicted.
C15_FitsSeeTrainingRowsOnly ==
    /\ \A f \in fit_log :
          /\ f.rows \subseteq Range(train)
          /\ f.rows \cap Range(test) = {}
    /\ \A p \in predict_log : p.rows = Range(test)
    /\ \A m \in {knn3, knn, l_regression} :
          m # None => (m.fitted \subseteq Range(train) /\ m.fitted \cap Range(test) = {})

C15_Witness ==
    /\ pc = "end" /\ Cardinality(fit_log) = 11
    /\ Len(train) = 3 /\ Len(test) = 2
    /\ knn # None /\ knn.fitted = Range(train)

\* C17: the logistic regression that is fitted and scored after its grid search
\* is built from best_c and best_penalty.
C17_TunedUsesBest ==
    pc \in {"nnet", "nnet_grid", "nnet_best", "end"} =>
        l_regression.params = <<best_c, best_penalty>>

\* C18: every K of the KNN grid is odd, and with two classes and uniform
\* weights the vote among the K nearest neighbours is never a tie.
C18_OddKNeverTies ==
    /\ \A i \in 1..Len(n_neighbors) : n_neighbors[i] % 2 = 1
    /\ vote_pc # "idle" => K % 2 = 1
    /\ vote_pc = "done" =>
          /\ ~vote.tie
          /\ neigh_votes[1] # neigh_votes[2]
          /\ vote.label = (IF neigh_votes[2] > neigh_votes[1] THEN 1 ELSE 0)

C18_Witness ==
    /\ vote_pc = "done" /\ K = 49
    /\ neigh_votes = <<24, 25>> /\ vote.label = 1

\* ---- the heatmaps
\* the combination named by the ticks of row r and column c
TickCombination(r, c) ==
    IF yticks.param = 1 THEN <<yticks.labels[r], xticks.labels[c]>>
                        ELSE <<xticks.labels[c], yticks.labels[r]>>

RecordedMean(p) == (CHOOSE e \in Range(score_dict) : e.parameters = p).mean

CellsShowTheirCombination ==
    /\ Len(heat_scores) = Len(yticks.labels)
    /\ \A r \in 1..Len(heat_scores) :
          /\ Len(heat_scores[r]) = Len(xticks.labels)
          /\ \A c \in 1..Len(heat_scores[r]) :
                heat_scores[r][c] = RecordedMean(TickCombination(r, c))

\* C16: in each of the four heatmaps, the value drawn at the cell whose row
\* tick names a and whose column tick names b is the mean score the search
\* recorded for the combination (a, b).
C16_HeatmapCellsMatchTicks ==
    h_pc = "shown" => CellsShowTheirCombination

\* the same for the three heatmaps other than the logistic regression's
HeatmapsOtherThanLr ==
    (h_pc = "shown" /\ h_kind # "lr") => CellsShowTheirCombination

====
